---- MODULE Spec2Model ----
(***************************************************************************)
(* A model of jakebowkett/go-router (src/router/router.go).  The file      *)
(* holds two variants of the router: the group-tree router (lines 1-499)   *)
(* and the flat strata router (lines 501-899).  Strings are sequences of   *)
(* one-character strings, so that the pattern compiler and explodePath     *)
(* are computed as the code computes them.                                 *)
(***************************************************************************)
EXTENDS Integers, Sequences, FiniteSets, TLC

VARIABLES
    variant,    \* "tree" (lines 1-499) or "strata" (lines 501-899)
    opt,        \* which hooks of Options / Router are non-nil
    routes,     \* every entry ever appended: rt.route.route (tree), rt.strata
    stale,      \* tree: groups whose *route handle points into an old array
    Errors,     \* rt.Errors
    pc,         \* position of ServeHTTP ("build" before the first request)
    req,        \* the *http.Request: Method and URL.Path
    r,          \* the *Request context: Vars, Status, Error
    stack,      \* tree: iterateRoutes call stack; strata: the loop index
    code,       \* tree: code, match; strata: statusCode, seenRoute
    panicking,  \* a runtime fault is unwinding ServeHTTP
    log,        \* calls made by the current dispatch, in order
    written,    \* status codes passed to w.WriteHeader by the dispatch
    propagated, \* the fault left ServeHTTP (reached the caller)
    mIn,        \* matcher specification: variant, pattern string, request path
    mOut,       \* matcher specification: compiled pattern and pathsMatch result
    gen         \* rt.reqId, rt.reqIdMu and the dispatches calling rt.opt.IdGenerator

vars == <<variant, opt, routes, stale, Errors, pc, req, r, stack, code,
          panicking, log, written, propagated, mIn, mOut, gen>>

\* ------------------------------------------------------------------------
\* Go strings and slices

Nil == <<>>

\* s[lo:hi] of Go (0-based, hi exclusive)
GoSlice(s, lo, hi) == SubSeq(s, lo + 1, hi)

\* s[lo:hi] panics (slice bounds out of range)
SliceFaults(s, lo, hi) == lo > hi \/ hi > Len(s) \/ lo < 0

\* strings.IndexRune: 0-based index of the first c in s, or -1
IndexRune(s, c) ==
    IF \E i \in 1..Len(s) : s[i] = c
    THEN (CHOOSE i \in 1..Len(s) : s[i] = c /\ \A j \in 1..(i - 1) : s[j] # c) - 1
    ELSE -1

\* strings.IndexAny(s, chars) != -1
ContainsAny(s, chars) == \E i \in 1..Len(s) : s[i] \in chars

RECURSIVE TrimLeft(_, _)
TrimLeft(s, cs) ==
    IF s # <<>> /\ Head(s) \in cs THEN TrimLeft(Tail(s), cs) ELSE s

RECURSIVE TrimRight(_, _)
TrimRight(s, cs) ==
    IF s # <<>> /\ s[Len(s)] \in cs THEN TrimRight(SubSeq(s, 1, Len(s) - 1), cs) ELSE s

\* strings.Trim(s, cutset)
Trim(s, cs) == TrimRight(TrimLeft(s, cs), cs)

\* strings.TrimSpace
TrimSpace(s) == Trim(s, {" "})

\* strings.Split(s, sep) for a one-character sep: never empty, "" gives [""]
RECURSIVE Split(_, _)
Split(s, sep) ==
    LET i == IndexRune(s, sep) IN
    IF i = -1 THEN <<s>>
    ELSE <<SubSeq(s, 1, i)>> \o Split(SubSeq(s, i + 2, Len(s)), sep)

\* strings.HasPrefix(s, "^")
HasPrefix(s, c) == s # <<>> /\ Head(s) = c

\* explodePath (both variants)
explodePath(path) == Split(Trim(path, {"/"}), "/")

illegal == {":", "[", "]"}

\* ------------------------------------------------------------------------
\* Vars: a Go map[string]string, nil or a set of <<name, value>> pairs

NilVars == [nil |-> TRUE, kv |-> {}]
MakeVars == [nil |-> FALSE, kv |-> {}]

\* vars[name] = value
MapPut(m, name, value) ==
    [nil |-> FALSE, kv |-> {p \in m.kv : p[1] # name} \cup {<<name, value>>}]

\* ------------------------------------------------------------------------
\* Pattern compiler

ConfigError(kind, method, pattern) ==
    [kind |-> kind, method |-> method, pattern |-> pattern]

\* validVarName (tree variant)
validVarName(pattern, name, seenVars) ==
    IF name = <<>> THEN <<ConfigError("no variable name", "", pattern)>>
    ELSE IF name \in seenVars THEN <<ConfigError("duplicate variable", "", pattern)>>
    ELSE <<>>

\* one error per whitelist entry holding a reserved character
RECURSIVE WhitelistErrors(_, _)
WhitelistErrors(matches, pattern) ==
    IF matches = <<>> THEN <<>>
    ELSE (IF ContainsAny(Head(matches), illegal)
          THEN <<ConfigError("illegal whitelist", "", pattern)>> ELSE <<>>)
         \o WhitelistErrors(Tail(matches), pattern)

\* The body of expandPattern's loop for one sub-pattern sp: the segment it
\* builds, the errors it collects, whether it faults (sp[0] of an empty sp,
\* or a slice out of range), and the var names seen.  validate is TRUE in
\* the tree variant, which calls validVarName, FALSE in the strata variant.
expandSegment(sp, pattern, seenVars, validate) ==
    IF sp = <<>> THEN
        [fault |-> TRUE, errs |-> <<>>, seg |-> Nil, seen |-> seenVars]
    ELSE
    LET isLiteral == sp[1] # ":" /\ sp[1] # "["
        isVar     == sp[1] = ":"
        idx       == IndexRune(sp, "[")
        hasList   == ~isLiteral /\ (sp[1] = "[" \/ idx # -1)
        listStart == IF isVar THEN idx ELSE 0
        varName   == IF ~isVar THEN <<>>
                     ELSE IF idx = -1 THEN GoSlice(sp, 1, Len(sp))
                     ELSE GoSlice(sp, 1, listStart)
        e1 == IF isLiteral /\ ContainsAny(sp, illegal)
              THEN <<ConfigError("illegal literal", "", pattern)>> ELSE <<>>
        e2 == IF isVar /\ validate THEN validVarName(pattern, varName, seenVars)
              ELSE <<>>
        e3 == IF hasList /\ sp[Len(sp)] # "]"
              THEN <<ConfigError("no closing bracket", "", pattern)>> ELSE <<>>
        faults == hasList /\ SliceFaults(sp, listStart + 1, Len(sp) - 1)
        split == IF hasList /\ ~faults
                 THEN Split(GoSlice(sp, listStart + 1, Len(sp) - 1), ",")
                 ELSE <<>>
        trimmed == [i \in 1..Len(split) |-> TrimSpace(split[i])]
        e4 == IF ContainsAny(varName, illegal)
              THEN <<ConfigError("illegal variable", "", pattern)>> ELSE <<>>
        e5 == WhitelistErrors(trimmed, pattern)
        matches == IF isLiteral THEN <<sp>> ELSE trimmed
        seen == IF isVar /\ validate THEN seenVars \cup {varName} ELSE seenVars
    IN  IF faults
        THEN [fault |-> TRUE, errs |-> <<>>, seg |-> Nil, seen |-> seen]
        ELSE [fault |-> FALSE,
              errs  |-> e1 \o e2 \o e3 \o e4 \o e5,
              seg   |-> [raw |-> sp, varName |-> varName, matches |-> matches,
                         matchesNil |-> ~isLiteral /\ ~hasList],
              seen  |-> seen]

\* expandPattern's loop over subPatterns; a fault ends it, keeping the errors
\* already appended to rt.Errors by earlier iterations
RECURSIVE expandLoop(_, _, _, _)
expandLoop(subPatterns, pattern, seenVars, validate) ==
    IF subPatterns = <<>> THEN [segments |-> <<>>, errs |-> <<>>, fault |-> FALSE]
    ELSE
    LET one == expandSegment(Head(subPatterns), pattern, seenVars, validate) IN
    IF one.fault THEN [segments |-> <<>>, errs |-> <<>>, fault |-> TRUE]
    ELSE
    LET rest == expandLoop(Tail(subPatterns), pattern, one.seen, validate) IN
    [segments |-> (IF one.errs = <<>> THEN <<one.seg>> ELSE <<>>) \o rest.segments,
     errs     |-> one.errs \o rest.errs,
     fault    |-> rest.fault]

\* Router.expandPattern (tree variant): "" compiles to nil
expandPattern(pattern) ==
    IF pattern = <<>> THEN [segments |-> <<>>, errs |-> <<>>, fault |-> FALSE]
    ELSE expandLoop(explodePath(pattern), pattern, {}, TRUE)

\* Router.expandPattern (strata variant)
expandPatternStrata(pattern) ==
    expandLoop(explodePath(pattern), pattern, {}, FALSE)

\* ------------------------------------------------------------------------
\* Path matcher

\* for _, match := range seg.matches (tree variant): found
foundIn(matches, value) == \E i \in 1..Len(matches) : matches[i] = value

\* pathsMatch's loop over pattern (tree variant), from segment i on
RECURSIVE matchFrom(_, _, _, _)
matchFrom(pattern, reqPath, i, vs) ==
    IF i > Len(pattern) THEN
        [vars |-> IF vs.kv = {} THEN NilVars ELSE vs, ok |-> TRUE]
    ELSE
    LET seg == pattern[i]
        bound == IF seg.varName # <<>> THEN MapPut(vs, seg.varName, reqPath[i])
                 ELSE vs
    IN  IF seg.matchesNil THEN matchFrom(pattern, reqPath, i + 1, bound)
        ELSE IF ~foundIn(seg.matches, reqPath[i]) THEN [vars |-> NilVars, ok |-> FALSE]
        ELSE matchFrom(pattern, reqPath, i + 1, bound)

\* pathsMatch (tree variant)
pathsMatch(pattern, reqPath) ==
    IF Len(pattern) # Len(reqPath) THEN [vars |-> NilVars, ok |-> FALSE]
    ELSE matchFrom(pattern, reqPath, 1, MakeVars)

\* for _, match := range seg.matches (strata variant), from entry j on:
\* "veto" (return nil, false), "found" (found = true; break) or "none"
RECURSIVE scanMatches(_, _, _)
scanMatches(matches, value, j) ==
    IF j > Len(matches) THEN "none"
    ELSE IF HasPrefix(matches[j], "^")
         THEN IF Tail(matches[j]) = value THEN "veto"
              ELSE scanMatches(matches, value, j + 1)
         ELSE IF matches[j] = value THEN "found"
              ELSE scanMatches(matches, value, j + 1)

\* pathsMatch's loop over pattern (strata variant), from segment i on
RECURSIVE matchFromStrata(_, _, _, _)
matchFromStrata(pattern, reqPath, i, vs) ==
    IF i > Len(pattern) THEN
        [vars |-> IF vs.kv = {} THEN NilVars ELSE vs, ok |-> TRUE]
    ELSE
    LET seg == pattern[i]
        bound == IF seg.varName # <<>> THEN MapPut(vs, seg.varName, reqPath[i])
                 ELSE vs
    IN  IF seg.matchesNil THEN matchFromStrata(pattern, reqPath, i + 1, bound)
        ELSE IF scanMatches(seg.matches, reqPath[i], 1) # "found"
             THEN [vars |-> NilVars, ok |-> FALSE]
        ELSE matchFromStrata(pattern, reqPath, i + 1, bound)

\* pathsMatch (strata variant)
pathsMatchStrata(pattern, reqPath) ==
    IF Len(pattern) # Len(reqPath) THEN [vars |-> NilVars, ok |-> FALSE]
    ELSE matchFromStrata(pattern, reqPath, 1, MakeVars)


\* ------------------------------------------------------------------------
\* Request ids

MaxDispatches == 3

\* the goroutines that run ServeHTTP at the same time
Procs == 1..MaxDispatches

Digits ==
    << "0", "1", "2", "3", "4", "5", "6", "7", "8", "9", "a", "b", "c", "d", "e", "f",
       "g", "h", "i", "j", "k", "l", "m", "n", "o", "p", "q", "r", "s", "t", "u", "v",
       "w", "x", "y", "z" >>

\* strconv.FormatUint(n, base)
RECURSIVE FormatUint(_, _)
FormatUint(n, base) ==
    IF n < base THEN <<Digits[n + 1]>>
    ELSE FormatUint(n \div base, base) \o <<Digits[(n % base) + 1]>>

\* New: the zero reqId and an unlocked reqIdMu; custom is o.IdGenerator # nil.
\* at, n and Id are each goroutine's position, its local n and its Request.Id
NewIdGen(custom) ==
    [custom |-> custom, reqId |-> 0, reqIdMu |-> 0,
     at |-> [p \in Procs |-> "start"],
     n |-> [p \in Procs |-> 0],
     Id |-> [p \in Procs |-> <<>>]]

\* ------------------------------------------------------------------------
\* The matcher on its own: a pattern string is compiled by the variant's
\* expandPattern and matched against an exploded request path by the
\* variant's pathsMatch.

MatchPatterns ==
    { <<"/", "a">>,
      <<"/", ":", "x">>,
      <<"/", "a", "/", ":", "x">>,
      <<"/", "[", "a", ",", "b", "]">>,
      <<"/", "[", "b", ",", "^", "b", "]">>,
      <<"/", "[", "^", "b", ",", "b", "]">>,
      <<"/", "[", "a", ",", "^", "b", "]">>,
      <<"/", ":", "x", "[", "a", ",", " ", "b", "]">>,
      <<"/", ":", "x", "[", "^", "a", ",", "a", ",", "b", "]">>,
      <<"/", ":", "x", "/", ":", "y", "[", "b", ",", "^", "b", "]">>,
      <<"/", ":", "x", "/", ":", "x">> }

MatchPaths ==
    { <<"/", "a">>, <<"/", "b">>, <<"/", "c">>, <<"/">>,
      <<"/", "a", "/", "b">>, <<"/", "b", "/", "b", "/">> }

RouterIdle ==
    /\ variant = "none"
    /\ opt = [Before |-> FALSE, Error |-> FALSE, Recover |-> FALSE,
              Deferred |-> FALSE, Redirect |-> FALSE]
    /\ routes = <<>>
    /\ stale = {}
    /\ Errors = <<>>
    /\ pc = "none"
    /\ req = [Method |-> "", Path |-> <<>>]
    /\ r = [Vars |-> MakeVars, Status |-> 0, Error |-> "nil"]
    /\ stack = <<>>
    /\ code = [code |-> 0, match |-> FALSE]
    /\ panicking = FALSE
    /\ log = <<>>
    /\ written = <<>>
    /\ propagated = FALSE

routerVars == <<variant, opt, routes, stale, Errors, pc, req, r, stack, code,
                panicking, log, written, propagated, gen>>

NoMatchResult == [stage |-> "input", pattern |-> <<>>, vars |-> NilVars, ok |-> FALSE]

MatchInit ==
    /\ RouterIdle
    /\ mIn \in [variant : {"tree", "strata"}, pattern : MatchPatterns, path : MatchPaths]
    /\ mOut = NoMatchResult
    /\ gen = NewIdGen(FALSE)

\* rt.expandPattern(pattern)
MatchCompile ==
    /\ mOut.stage = "input"
    /\ LET c == IF mIn.variant = "tree" THEN expandPattern(mIn.pattern)
                ELSE expandPatternStrata(mIn.pattern)
       IN  /\ ~c.fault
           /\ mOut' = [mOut EXCEPT !.stage = "compiled", !.pattern = c.segments]
    /\ UNCHANGED <<mIn, routerVars>>

\* pathsMatch(pattern, explodePath(path))
MatchApply ==
    /\ mOut.stage = "compiled"
    /\ LET m == IF mIn.variant = "tree"
                THEN pathsMatch(mOut.pattern, explodePath(mIn.path))
                ELSE pathsMatchStrata(mOut.pattern, explodePath(mIn.path))
       IN  mOut' = [mOut EXCEPT !.stage = "matched", !.vars = m.vars, !.ok = m.ok]
    /\ UNCHANGED <<mIn, routerVars>>

MatchNext == MatchCompile \/ MatchApply

SpecMatch == MatchInit /\ [][MatchNext]_vars

\* a segment compiled from a bracketed list
ListConstrained(seg) == ~seg.matchesNil /\ ContainsAny(seg.raw, {"["})

\* the list of seg holds the exclusion entry ^v
Excludes(seg, v) == \E j \in 1..Len(seg.matches) : seg.matches[j] = <<"^">> \o v


\* C2: whenever a list-constrained segment of the pattern holds an exclusion
\* entry ^v and the request segment at that position is v, pathsMatch
\* rejects the path, wherever an inclusion entry v stands in the same list.
C2_ExclusionVetoes ==
    (mOut.stage = "matched" /\ Len(mOut.pattern) = Len(explodePath(mIn.path))) =>
        \A i \in 1..Len(mOut.pattern) :
            (ListConstrained(mOut.pattern[i])
             /\ Excludes(mOut.pattern[i], explodePath(mIn.path)[i]))
            => ~mOut.ok


\* ------------------------------------------------------------------------
\* The router: registration

\* registration calls made on the tree router before serving
MaxRoutes == 3

\* registration calls made on the strata router before serving
MaxStrata == 2

\* middleware functions given to one Add call (strata variant)
MaxMiddleware == 2

\* var methods (strata variant)
methods == {"HEAD", "GET", "POST", "PUT", "PATCH", "DELETE", "CONNECT",
            "OPTIONS", "TRACE"}

RegMethods == {"GET"}

RegPatterns == { <<"/", "a">>, <<"/", ":", "x">> }

\* the Group calls made: pattern, skip, unauthorized (TRUE is a non-nil
\* Guard): a guarded group without a prefix and a bare prefix group
GroupCalls ==
    { << <<>>, TRUE, TRUE >>,
      << <<"/", ":", "x">>, FALSE, FALSE >> }

\* rt.seenRoute: declared, never made and never written
seenRoute == {}

Entry(kind, method, src, pattern, parent, skip, unauthorized, handler, nmw) ==
    [kind |-> kind, method |-> method, src |-> src, pattern |-> pattern,
     parent |-> parent, skip |-> skip, unauthorized |-> unauthorized,
     handler |-> handler, nmw |-> nmw]

Ids == 1..Len(routes)

\* the handles a caller can hold: the router itself (0) and every *route
\* returned by Group
Handles == {0} \cup {g \in Ids : routes[g].kind = "group"}

\* the handle still points at the element the table reaches
HandleLive(h) == h \notin stale

ChildrenReversed(p) ==
    LET kids == SelectSeq([i \in 1..Len(routes) |-> i], LAMBDA c : routes[c].parent = p)
    IN  [k \in 1..Len(kids) |-> kids[Len(kids) + 1 - k]]

\* r.route of entry p (0: rt.route.route), as entry ids in append order
Children(p) ==
    SelectSeq([i \in 1..Len(routes) |-> i], LAMBDA c : routes[c].parent = p)

\* append(r.route, x) on a slice of length n allocates a new array: the
\* capacity of a slice grown one element at a time doubles (0, 1, 2, 4, 8)
Grows(n) == n \in {0, 1, 2, 4, 8}

\* r.route = append(r.route, entry) through handle h: entries appended through
\* a handle into an abandoned array never reach the table, and a new array
\* leaves every handle into the old one behind
AppendEntry(h, entry) ==
    LET live == HandleLive(h)
        kids == Children(h)
    IN  IF live
        THEN /\ routes' = Append(routes, [entry EXCEPT !.parent = h])
             /\ stale' = IF Grows(Len(kids))
                         THEN stale \cup {c \in Ids : routes[c].parent = h
                                                      /\ routes[c].kind = "group"}
                         ELSE stale
        ELSE UNCHANGED <<routes, stale>>

dispatchVars == <<req, r, stack, code, panicking, log, written, propagated>>

Building ==
    pc = "build" /\ Len(routes) < (IF variant = "tree" THEN MaxRoutes ELSE MaxStrata)

\* route.Use (tree variant)
Use(h, handler) ==
    /\ variant = "tree" /\ Building
    /\ Errors' = Errors \o (IF handler THEN <<>> ELSE <<ConfigError("nil use", "", <<>>)>>)
    /\ AppendEntry(h, Entry("use", "", <<>>, <<>>, h, FALSE, FALSE, handler, 0))
    /\ UNCHANGED <<variant, opt, pc, dispatchVars, mIn, mOut, gen>>

\* route.Group
Group(h, pattern, skip, unauthorized) ==
    /\ variant = "tree" /\ Building
    /\ LET c == expandPattern(pattern) IN
       /\ Errors' = Errors \o c.errs
       /\ IF c.fault
          THEN pc' = "crashed" /\ UNCHANGED <<routes, stale>>
          ELSE /\ pc' = pc
               /\ AppendEntry(h, Entry("group", "", pattern, c.segments, h, skip,
                                       unauthorized, FALSE, 0))
    /\ UNCHANGED <<variant, opt, dispatchVars, mIn, mOut, gen>>

\* route.add (tree variant), called by Get, Pst, Put, ...
add(h, method, pattern, handler) ==
    /\ variant = "tree" /\ Building
    /\ LET c == expandPattern(pattern)
           e1 == IF handler THEN <<>> ELSE <<ConfigError("no handler", method, pattern)>>
           e2 == IF <<method, pattern>> \in seenRoute
                 THEN <<ConfigError("unreachable route", method, pattern)>> ELSE <<>>
       IN
       /\ Errors' = Errors \o e1 \o e2 \o c.errs
       /\ IF c.fault
          THEN pc' = "crashed" /\ UNCHANGED <<routes, stale>>
          ELSE /\ pc' = pc
               /\ AppendEntry(h, Entry("route", method, pattern, c.segments, h, FALSE,
                                       FALSE, handler, 0))
    /\ UNCHANGED <<variant, opt, dispatchVars, mIn, mOut, gen>>

\* Router.Use (strata variant)
UseStrata(fn) ==
    /\ variant = "strata" /\ Building
    /\ Errors' = Errors \o (IF fn THEN <<>> ELSE <<ConfigError("nil use", "", <<>>)>>)
    /\ routes' = Append(routes, Entry("use", "", <<>>, <<>>, 0, FALSE, FALSE, fn, 0))
    /\ UNCHANGED <<variant, opt, stale, pc, dispatchVars, mIn, mOut, gen>>

\* Router.isUnique (strata variant)
isUnique(method, pattern) ==
    ~\E i \in Ids :
        /\ routes[i].method = method
        /\ pathsMatchStrata(routes[i].pattern, explodePath(pattern)).ok

\* Router.Add (strata variant), called by Get, Pst, Put, ...
Add(method, pattern, handler, nmw) ==
    /\ variant = "strata" /\ Building
    /\ LET c == expandPatternStrata(pattern)
           e1 == IF method \in methods THEN <<>>
                 ELSE <<ConfigError("invalid method", method, pattern)>>
           e2 == IF handler THEN <<>> ELSE <<ConfigError("no handler", method, pattern)>>
           e3 == IF isUnique(method, pattern) THEN <<>>
                 ELSE <<ConfigError("unreachable route", method, pattern)>>
       IN
       /\ Errors' = Errors \o e1 \o e2 \o e3 \o c.errs
       /\ IF c.fault
          THEN pc' = "crashed" /\ UNCHANGED routes
          ELSE /\ pc' = pc
               /\ routes' = Append(routes, Entry("route", method, pattern, c.segments, 0,
                                                 FALSE, FALSE, handler, nmw))
    /\ UNCHANGED <<variant, opt, stale, dispatchVars, mIn, mOut, gen>>


\* ------------------------------------------------------------------------
\* The router: ServeHTTP

\* the requests served: Method and URL.Path
Requests ==
    { <<"GET", <<"/", "a">>>>,
      <<"GET", <<"/", "b", "/", "a">>>>,
      <<"POST", <<"/", "a">>>> }

\* Status values the Before hook leaves on the context
BeforeStatuses == {0, 302}

\* what a failing Use function and a failing per-route middleware report
UseAbort == [code |-> 403, err |-> "err"]
MwAbort == [code |-> 500, err |-> "err"]

StatusUnauthorized == 401
StatusNotFound == 404

\* one call made by the dispatch: the function called (id: its table entry,
\* arg: its place in the middleware list), what it did, and the context's
\* Status and Error as the callee is handed them
EvWith(call, id, arg, out, ctx) ==
    [call |-> call, id |-> id, arg |-> arg, out |-> out,
     Status |-> ctx.Status, Error |-> ctx.Error]

Ev(call, id, arg, out) == EvWith(call, id, arg, out, r)

Bool(b) == IF b THEN "true" ELSE "false"

NewRequest == [Vars |-> MakeVars, Status |-> 0, Error |-> "nil"]

Frame(parent, i, reqPath, unauthorized) ==
    [parent |-> parent, i |-> i, reqPath |-> reqPath, unauthorized |-> unauthorized]

\* the loop goes on with its next entry; a finished loop returns 0, false
\* to the caller's loop, which goes on with its next entry.  <<>>: the
\* outermost loop is finished.
RECURSIVE Unwind(_)
Unwind(stk) ==
    IF stk = <<>> THEN <<>>
    ELSE LET f == stk[Len(stk)] IN
         IF f.i <= Len(Children(f.parent)) THEN stk
         ELSE IF Len(stk) = 1 THEN <<>>
         ELSE LET below == SubSeq(stk, 1, Len(stk) - 1)
                  g == below[Len(below)]
              IN  Unwind([below EXCEPT ![Len(below)] = [g EXCEPT !.i = g.i + 1]])

Continue(stk) ==
    LET f == stk[Len(stk)]
    IN  Unwind([stk EXCEPT ![Len(stk)] = [f EXCEPT !.i = f.i + 1]])

\* where ServeHTTP stands with loop state stk: in the loop, or past it
ScanPc(stk) == IF stk = <<>> THEN "report" ELSE "scan"

\* ServeHTTP up to the first hook: the context is made, Deferred and the
\* recover closure are deferred.  The table is read-only from the first
\* request on and a dispatch keeps nothing, so every request starts from the
\* router state the build phase left: one request is followed.
Serve(method, path) ==
    /\ pc = "build"
    /\ req' = [Method |-> method, Path |-> path]
    /\ r' = NewRequest
    /\ log' = <<>>
    /\ written' = <<>>
    /\ panicking' = FALSE
    /\ propagated' = FALSE
    /\ code' = [code |-> 0, match |-> FALSE]
    /\ LET stk == Unwind(<<Frame(0, 1, explodePath(path), FALSE)>>) IN
       /\ stack' = stk
       /\ pc' = IF variant = "strata" /\ opt.Redirect THEN "redirect"
                ELSE IF opt.Before THEN "before"
                ELSE ScanPc(stk)
    /\ UNCHANGED <<variant, opt, routes, stale, Errors, mIn, mOut, gen>>

\* rt.Redirect(w, request) (strata variant)
Redirect(redirected) ==
    /\ variant = "strata" /\ pc = "redirect"
    /\ log' = Append(log, Ev("Redirect", 0, 0, Bool(redirected)))
    /\ pc' = IF redirected THEN "return" ELSE IF opt.Before THEN "before"
             ELSE ScanPc(stack)
    /\ UNCHANGED <<variant, opt, routes, stale, Errors, req, r, stack, code, panicking,
                   written, propagated, mIn, mOut, gen>>

BeforeGoesOn(status) ==
    /\ pc = "before"
    /\ log' = Append(log, Ev("Before", 0, 0, "ok"))
    /\ r' = IF variant = "tree" THEN [r EXCEPT !.Status = status] ELSE r
    /\ pc' = ScanPc(stack)
    /\ UNCHANGED <<variant, opt, routes, stale, Errors, req, stack, code, panicking,
                   written, propagated, mIn, mOut, gen>>

\* rt.opt.Before(w, r) and the check of r.Status (tree variant);
\* rt.Before(w, r) on the bare *http.Request (strata variant)
Before(status) ==
    /\ pc = "before"
    /\ log' = Append(log, Ev("Before", 0, 0, "ok"))
    /\ IF variant = "tree"
       THEN /\ r' = [r EXCEPT !.Status = status]
            /\ pc' = IF status >= 300 /\ status < 400 THEN "return" ELSE ScanPc(stack)
       ELSE /\ r' = r
            /\ pc' = ScanPc(stack)
    /\ UNCHANGED <<variant, opt, routes, stale, Errors, req, stack, code, panicking,
                   written, propagated, mIn, mOut, gen>>

\* what a Guard returns: a nil Guard is not called
GuardResults(guard) == IF guard THEN BOOLEAN ELSE {FALSE}

\* the ways one iteration of iterateRoutes' loop ends, as the values of pc,
\* r, stack, code, panicking and log it leaves: continue (and, from a
\* finished loop, return 0, false)
GoOn(rr, lg) ==
    LET stk == Continue(stack) IN
    [pc |-> ScanPc(stk), r |-> rr, stack |-> stk,
     code |-> [code |-> 0, match |-> FALSE], panicking |-> FALSE, log |-> lg]

ReturnedNoMatch(c, rr, lg) ==
    [pc |-> "report", r |-> rr, stack |-> stack,
     code |-> [code |-> c, match |-> FALSE], panicking |-> FALSE, log |-> lg]

\* return c, true, handed up through every caller
Returned(c, rr, lg) ==
    [pc |-> "report", r |-> rr, stack |-> stack,
     code |-> [code |-> c, match |-> TRUE], panicking |-> FALSE, log |-> lg]

\* a runtime fault unwinds ServeHTTP
Faulted(rr, lg) ==
    [pc |-> "return", r |-> rr, stack |-> stack, code |-> code,
     panicking |-> TRUE, log |-> lg]

skipsNever(guard, sk) == FALSE

\* route.skip != nil && route.skip(r)
skips(guard, sk) == guard /\ sk

unauthorizedCleared(unauthorized, guard, un) == guard /\ un

\* unauthorized := unauthorized; if route.unauthorized != nil &&
\* route.unauthorized(r) { unauthorized = true }
unauthorizedAt(unauthorized, guard, un) == unauthorized \/ (guard /\ un)

terminalGoesOn(id, unauthorized, rr, lg, out) ==
    IF unauthorized THEN Returned(StatusUnauthorized, rr, lg)
    ELSE GoOn(rr, Append(lg, EvWith("handler", id, 0, out, rr)))

\* if len(remainingPath) == 0 { ... }: a group's handler is nil
terminal(id, unauthorized, rr, lg, out) ==
    IF unauthorized THEN Returned(StatusUnauthorized, rr, lg)
    ELSE IF ~routes[id].handler THEN Faulted(rr, lg)
    ELSE LET lg3 == Append(lg, EvWith("handler", id, 0, out, rr)) IN
         IF out = "panic" THEN Faulted(rr, lg3) ELSE Returned(0, rr, lg3)

\* one iteration of iterateRoutes' loop on entry id of the innermost call.
\* sk and un are the results of the skip and unauthorized guards, out what
\* the use handler or the route handler does.
iterateRoutes(id, sk, un, out) ==
    LET route == routes[id]
        f == stack[Len(stack)]
        n == Len(route.pattern)
    IN
    IF route.kind = "use" /\ route.handler THEN
        LET lg == Append(log, Ev("use", id, 0, out))
            rr == IF out = "err"
                  THEN [r EXCEPT !.Error = UseAbort.err, !.Status = UseAbort.code] ELSE r
        IN  IF rr.Error # "nil" THEN Returned(rr.Status, rr, lg) ELSE GoOn(rr, lg)
    ELSE
    LET lg1 == IF route.skip THEN Append(log, Ev("skip", id, 0, Bool(sk))) ELSE log IN
    IF skips(route.skip, sk) THEN GoOn(r, lg1)
    ELSE IF route.method # "" /\ route.method # req.Method THEN GoOn(r, lg1)
    ELSE IF n > Len(f.reqPath) THEN GoOn(r, lg1)
    ELSE
    LET remainingPath == GoSlice(f.reqPath, n, Len(f.reqPath))
        m == pathsMatch(route.pattern, GoSlice(f.reqPath, 0, n))
    IN
    IF ~m.ok THEN GoOn(r, lg1)
    ELSE
    LET r1 == [r EXCEPT !.Vars = m.vars]
        lg2 == IF route.unauthorized
               THEN Append(lg1, EvWith("unauthorized", id, 0, Bool(un), r1)) ELSE lg1
        unauthorized == unauthorizedAt(f.unauthorized, route.unauthorized, un)
    IN
    IF Len(remainingPath) = 0 THEN terminal(id, unauthorized, r1, lg2, out)
    ELSE IF Len(Children(id)) > 0 THEN
        [pc |-> "scan", r |-> r1,
         stack |-> Append(stack, Frame(id, 1, remainingPath, unauthorized)),
         code |-> [code |-> 0, match |-> FALSE], panicking |-> FALSE, log |-> lg2]
    ELSE GoOn(r1, lg2)

\* what a called function does: a Use function returns with or without an
\* error, a handler returns or faults
Outcomes(kind) == IF kind = "use" THEN {"ok", "err"} ELSE {"ok", "panic"}

\* code, match := iterateRoutes(w, r, rt.route.route, reqPath, false), one
\* loop iteration at a time (tree variant)
Iterate ==
    /\ variant = "tree" /\ pc = "scan"
    /\ LET f == stack[Len(stack)]
           id == Children(f.parent)[f.i]
       IN  \E sk \in GuardResults(routes[id].skip),
              un \in GuardResults(routes[id].unauthorized),
              out \in Outcomes(routes[id].kind) :
               LET nx == iterateRoutes(id, sk, un, out) IN
               /\ pc' = nx.pc
               /\ r' = nx.r
               /\ stack' = nx.stack
               /\ code' = nx.code
               /\ panicking' = nx.panicking
               /\ log' = nx.log
    /\ UNCHANGED <<variant, opt, routes, stale, Errors, req, written, propagated, mIn, mOut, gen>>

RunDeferredFirst(ctx, lg) ==
    LET recovers == IF variant = "tree" THEN opt.Recover ELSE TRUE
        lg1 == IF opt.Deferred THEN Append(lg, EvWith("Deferred", 0, 0, "ok", ctx)) ELSE lg
        r1 == IF panicking /\ variant = "tree" /\ opt.Recover
              THEN [ctx EXCEPT !.Error = "panic"] ELSE ctx
        lg2 == IF panicking /\ opt.Recover
               THEN Append(lg1, EvWith("Recover", 0, 0, "ok", r1)) ELSE lg1
    IN  /\ r' = r1
        /\ log' = lg2
        /\ propagated' = (panicking /\ ~recovers)
        /\ panicking' = FALSE
        /\ pc' = "done"

\* ServeHTTP returns or unwinds: the deferred recover closure runs, then the
\* deferred Deferred hook.  The tree variant defers the closure only when
\* Recover is set; the strata variant always recovers.  ctx and lg are the
\* context and the calls made when the function body ends.
RunDeferred(ctx, lg) ==
    LET recovers == IF variant = "tree" THEN opt.Recover ELSE TRUE
        r1 == IF panicking /\ variant = "tree" /\ opt.Recover
              THEN [ctx EXCEPT !.Error = "panic"] ELSE ctx
        lg1 == IF panicking /\ opt.Recover
               THEN Append(lg, EvWith("Recover", 0, 0, "ok", r1)) ELSE lg
        lg2 == IF opt.Deferred THEN Append(lg1, EvWith("Deferred", 0, 0, "ok", r1)) ELSE lg1
    IN  /\ r' = r1
        /\ log' = lg2
        /\ propagated' = (panicking /\ ~recovers)
        /\ panicking' = FALSE
        /\ pc' = "done"

\* ServeHTTP after iterateRoutes returned (tree variant), to its end
Report ==
    /\ variant = "tree" /\ pc = "report"
    /\ LET c == IF ~code.match THEN StatusNotFound ELSE code.code IN
       /\ code' = [code EXCEPT !.code = c]
       /\ IF c >= 400 /\ opt.Error
          THEN LET r1 == [r EXCEPT !.Status = c,
                                   !.Vars = IF r.Vars.nil THEN MakeVars ELSE r.Vars]
               IN  RunDeferred(r1, Append(log, EvWith("Error", 0, 0, "ok", r1)))
          ELSE RunDeferred(r, log)
    /\ UNCHANGED <<variant, opt, routes, stale, Errors, req, stack, written, mIn, mOut, gen>>

\* the calls of for _, mw := range s.middleware: the first k return no error
RECURSIVE MwCalls(_, _, _)
MwCalls(id, k, ctx) ==
    IF k = 0 THEN <<>>
    ELSE Append(MwCalls(id, k - 1, ctx), EvWith("middleware", id, k, "ok", ctx))

\* one iteration of ServeHTTP's loop over rt.strata on stratum id (strata
\* variant): k middleware return no error, then how says what comes next
\* ("ok": none is left; "err", "panic": the next one fails); out is what
\* the Use function or the handler does
serveStratum(id, k, how, out) ==
    LET s == routes[id]
        f == stack[1]
        stk == Continue(stack)
        goOn == [pc |-> ScanPc(stk), r |-> r, stack |-> stk, code |-> code,
                 panicking |-> FALSE, log |-> log]
    IN
    IF s.kind = "use" /\ s.handler THEN
        LET lg == Append(log, Ev("use", id, 0, out)) IN
        IF out = "err"
        THEN [pc |-> "report", r |-> [r EXCEPT !.Error = UseAbort.err], stack |-> stack,
              code |-> [code |-> UseAbort.code, match |-> TRUE],
              panicking |-> FALSE, log |-> lg]
        ELSE [goOn EXCEPT !.log = lg]
    ELSE IF s.method # req.Method THEN goOn
    ELSE
    LET m == pathsMatchStrata(s.pattern, f.reqPath) IN
    IF ~m.ok THEN goOn
    ELSE
    LET lgOk == log \o MwCalls(id, k, r)
        lgMw == IF how = "ok" THEN lgOk
                ELSE Append(lgOk, EvWith("middleware", id, k + 1, how, r))
        r1 == IF how = "err" THEN [r EXCEPT !.Error = MwAbort.err] ELSE r
        c1 == [code |-> IF how = "err" THEN MwAbort.code ELSE code.code, match |-> TRUE]
    IN
    IF how = "panic"
    THEN [pc |-> "return", r |-> r, stack |-> stack, code |-> c1,
          panicking |-> TRUE, log |-> lgMw]
    ELSE
    LET r2 == [r1 EXCEPT !.Vars = m.vars] IN
    IF ~s.handler
    THEN [pc |-> "return", r |-> r2, stack |-> stack, code |-> c1,
          panicking |-> TRUE, log |-> lgMw]
    ELSE [pc |-> "return", r |-> r2, stack |-> stack, code |-> c1,
          panicking |-> (out = "panic"),
          log |-> Append(lgMw, EvWith("handler", id, 0, out, r2))]

\* the ways the middleware loop of a stratum with nmw middleware can run
MwRuns(nmw) ==
    {<<nmw, "ok">>} \cup {<<k, how>> : k \in 0..(nmw - 1), how \in {"err", "panic"}}

\* for _, s := range rt.strata, one iteration at a time (strata variant)
ServeStrata ==
    /\ variant = "strata" /\ pc = "scan"
    /\ LET id == stack[1].i IN
       \E run \in MwRuns(routes[id].nmw), out \in Outcomes(routes[id].kind) :
           LET nx == serveStratum(id, run[1], run[2], out) IN
           /\ pc' = nx.pc
           /\ r' = nx.r
           /\ stack' = nx.stack
           /\ code' = nx.code
           /\ panicking' = nx.panicking
           /\ log' = nx.log
    /\ UNCHANGED <<variant, opt, routes, stale, Errors, req, written, propagated, mIn, mOut, gen>>

\* ServeHTTP after the loop over rt.strata (strata variant), to its end
ReportStrata ==
    /\ variant = "strata" /\ pc = "report"
    /\ LET c == IF ~code.match THEN StatusNotFound ELSE code.code IN
       /\ code' = [code EXCEPT !.code = c]
       /\ IF opt.Error
          THEN LET r1 == [r EXCEPT !.Status = c] IN
               /\ RunDeferred(r1, Append(log, EvWith("Error", 0, 0, "ok", r1)))
               /\ written' = written
          ELSE /\ written' = Append(written, c)
               /\ RunDeferred(r, log)
    /\ UNCHANGED <<variant, opt, routes, stale, Errors, req, stack, mIn, mOut, gen>>

\* ServeHTTP ends by a return before the loop (a redirect), by the return
\* after the handler (strata variant) or by a fault
Return ==
    /\ pc = "return"
    /\ RunDeferred(r, log)
    /\ UNCHANGED <<variant, opt, routes, stale, Errors, req, stack, code, written,
                   mIn, mOut, gen>>

\* ------------------------------------------------------------------------
\* The router's specification: New, registration, then requests

Hooks(before, error, recover, deferred, redirect) ==
    [Before |-> before, Error |-> error, Recover |-> recover, Deferred |-> deferred,
     Redirect |-> redirect]

\* the hook settings the router is built with (TRUE: the hook is non-nil):
\* none, all, and four more so that every two hooks occur in each of their
\* four combinations.  The tree variant has no Redirect hook.
TreeOptions ==
    { Hooks(FALSE, FALSE, FALSE, FALSE, FALSE), Hooks(TRUE, TRUE, TRUE, TRUE, FALSE),
      Hooks(TRUE, TRUE, TRUE, FALSE, FALSE), Hooks(TRUE, FALSE, FALSE, TRUE, FALSE),
      Hooks(FALSE, TRUE, FALSE, TRUE, FALSE), Hooks(FALSE, FALSE, TRUE, FALSE, FALSE) }

StrataOptions ==
    { Hooks(FALSE, FALSE, FALSE, FALSE, FALSE), Hooks(TRUE, TRUE, TRUE, TRUE, TRUE),
      Hooks(TRUE, TRUE, TRUE, FALSE, FALSE), Hooks(TRUE, FALSE, FALSE, TRUE, TRUE),
      Hooks(FALSE, TRUE, FALSE, TRUE, FALSE), Hooks(FALSE, FALSE, TRUE, FALSE, TRUE) }

\* New (tree variant) / a Router literal with its hook fields set (strata)
Init ==
    /\ variant \in {"tree", "strata"}
    /\ opt \in (IF variant = "tree" THEN TreeOptions ELSE StrataOptions)
    /\ routes = <<>>
    /\ stale = {}
    /\ Errors = <<>>
    /\ pc = "build"
    /\ req = [Method |-> "", Path |-> <<>>]
    /\ r = NewRequest
    /\ stack = <<>>
    /\ code = [code |-> 0, match |-> FALSE]
    /\ panicking = FALSE
    /\ log = <<>>
    /\ written = <<>>
    /\ propagated = FALSE
    /\ mIn = [variant |-> "none", pattern |-> <<>>, path |-> <<>>]
    /\ mOut = NoMatchResult
    /\ gen = NewIdGen(FALSE)

Next ==
    \/ \E h \in Handles : Use(h, TRUE)
    \/ \E h \in Handles, g \in GroupCalls : Group(h, g[1], g[2], g[3])
    \/ \E h \in Handles, m \in RegMethods, p \in RegPatterns : add(h, m, p, TRUE)
    \/ UseStrata(TRUE)
    \/ \E m \in RegMethods, p \in RegPatterns, n \in 0..MaxMiddleware : Add(m, p, TRUE, n)
    \/ \E q \in Requests : Serve(q[1], q[2])
    \/ \E b \in BOOLEAN : Redirect(b)
    \/ \E st \in BeforeStatuses : Before(st)
    \/ Iterate
    \/ Report
    \/ ServeStrata
    \/ ReportStrata
    \/ Return

Spec == Init /\ [][Next]_vars

\* ------------------------------------------------------------------------
\* Properties of a dispatch, read from the calls it made

\* the places in log of the calls to the given kinds of function
Calls(kinds) == {i \in 1..Len(log) : log[i].call \in kinds}

\* guard call ("skip", "unauthorized") of group g returned true
GuardTrue(call, g) ==
    \E i \in Calls({call}) : log[i].id = g /\ log[i].out = "true"

\* C1: in the strata router, once a per-route middleware of the matching
\* route has returned an error, no later middleware of that route and not
\* its handler is called, the context holds the returned status and error,
\* and the Error hook, when set, is called with them
C1_MiddlewareErrorAborts ==
    (variant = "strata" /\ pc = "done") =>
        \A i \in Calls({"middleware"}) : log[i].out = "err" =>
            /\ \A j \in Calls({"middleware", "handler"}) : j <= i
            /\ r.Status = MwAbort.code
            /\ r.Error = MwAbort.err
            /\ opt.Error => \E e \in Calls({"Error"}) :
                   log[e].Status = MwAbort.code /\ log[e].Error = MwAbort.err

\* the entry the scan of the tree ended at, and the groups it lies in
Current == Children(stack[Len(stack)].parent)[stack[Len(stack)].i]

Ancestors == {stack[k].parent : k \in 2..Len(stack)}

\* the scan ended at a route that consumed the whole path beneath a group
\* whose unauthorized guard returned true
UnauthorizedTerminal ==
    /\ variant = "tree" /\ pc = "done" /\ stack # <<>>
    /\ routes[Current].kind = "route"
    /\ \E g \in Ancestors : GuardTrue("unauthorized", g)

\* C3: in the tree router, a terminal route beneath a group whose
\* unauthorized guard returned true ends with status 401 and its handler is
\* not called, whatever the guards of the groups between them return
C3_UnauthorizedInherited ==
    UnauthorizedTerminal =>
        /\ code = [code |-> StatusUnauthorized, match |-> TRUE]
        /\ Calls({"handler"}) = {}

\* an outer group's guard returned true, the group beneath it has no guard
\* or one that returned false, and the route beneath both ended with 401
C3_Witness ==
    /\ UnauthorizedTerminal
    /\ Len(stack) = 3
    /\ GuardTrue("unauthorized", stack[2].parent)
    /\ ~GuardTrue("unauthorized", stack[3].parent)
    /\ code.code = StatusUnauthorized

\* the entries from the root table down to entry id
RECURSIVE Chain(_)
Chain(id) == IF id = 0 THEN <<>> ELSE Append(Chain(routes[id].parent), id)

\* the pattern of entry id with the prefixes of the groups it lies in
RECURSIVE FullPattern(_)
FullPattern(id) ==
    IF id = 0 THEN <<>> ELSE FullPattern(routes[id].parent) \o routes[id].pattern

\* route id has the request's method and its pattern matches the full path
FullMatch(id) ==
    LET reqPath == explodePath(req.Path) IN
    /\ routes[id].kind = "route"
    /\ routes[id].method = req.Method
    /\ Len(FullPattern(id)) = Len(reqPath)
    /\ IF variant = "tree" THEN pathsMatch(FullPattern(id), reqPath).ok
       ELSE pathsMatchStrata(FullPattern(id), reqPath).ok

\* route a comes before route b in depth-first registration order
RegisteredBefore(a, b) ==
    \E k \in 1..Len(Chain(a)) :
        /\ k <= Len(Chain(b))
        /\ Chain(a)[k] < Chain(b)[k]
        /\ \A j \in 1..(k - 1) : Chain(a)[j] = Chain(b)[j]

\* entry id lies in a group whose skip guard returned true for the request
Skipped(id) == \E k \in 1..Len(Chain(id)) : GuardTrue("skip", Chain(id)[k])

\* C4 as stated: the handler called is that of the first registered route,
\* in depth-first order, among all routes with the request's method whose
\* pattern matches the full path
C4_FirstRegisteredWins ==
    \A h \in Calls({"handler"}) :
        /\ FullMatch(log[h].id)
        /\ \A j \in Ids : FullMatch(j) => ~RegisteredBefore(j, log[h].id)

\* C4: the handler called is that of the first registered route, in
\* depth-first order, among the routes with the request's method whose
\* pattern matches the full path and which lie in no group whose skip guard
\* returned true
C4_FirstNotSkippedWins ==
    \A h \in Calls({"handler"}) :
        /\ FullMatch(log[h].id)
        /\ ~Skipped(log[h].id)
        /\ \A j \in Ids :
               (FullMatch(j) /\ ~Skipped(j)) => ~RegisteredBefore(j, log[h].id)

\* the handler of a route with a variable was called although a literal
\* route registered later matches the request too
C4_Witness ==
    \E h \in Calls({"handler"}), j \in Ids :
        /\ FullMatch(j) /\ ~Skipped(j)
        /\ RegisteredBefore(log[h].id, j)
        /\ routes[log[h].id].src = <<"/", ":", "x">>
        /\ routes[j].src = <<"/", "a">>

\* C5: a dispatch calls at most one route handler, and after it no
\* middleware, guard or handler: only the hooks that end the dispatch
C5_AtMostOneHandler ==
    /\ Cardinality(Calls({"handler"})) <= 1
    /\ \A h \in Calls({"handler"}) : \A j \in (h + 1)..Len(log) :
           log[j].call \in {"Error", "Recover", "Deferred"}

\* the scan entered a group, found no terminal match in it, went on with
\* the group's later siblings and called the handler of one of them
C5_Witness ==
    \E h \in Calls({"handler"}), u \in Calls({"use"}) :
        /\ u < h
        /\ routes[log[u].id].parent # 0
        /\ routes[log[h].id].parent = 0
        /\ pc = "done"

\* C6: when a handler or middleware faults, the fault does not leave
\* ServeHTTP, the context's Error holds it, the Recover hook (when set) is
\* called, and the Deferred hook (when set) runs after it
C6_FaultCaught ==
    (pc = "done" /\ \E i \in 1..Len(log) : log[i].out = "panic") =>
        /\ ~propagated
        /\ r.Error = "panic"
        /\ opt.Recover => Calls({"Recover"}) # {}
        /\ opt.Deferred => (log[Len(log)].call = "Deferred"
                            /\ \A c \in Calls({"Recover"}) : c < Len(log))

\* C7: with a Deferred hook set, a dispatch calls it exactly once, when it
\* ends, and makes no other call after it
C7_DeferredOnceAndLast ==
    opt.Deferred =>
        /\ Cardinality(Calls({"Deferred"})) = (IF pc = "done" THEN 1 ELSE 0)
        /\ \A d \in Calls({"Deferred"}) : d = Len(log)

\* a handler faulted, Recover ran, and Deferred ran after it
C7_Witness ==
    /\ pc = "done" /\ opt.Deferred
    /\ \E i \in Calls({"handler"}) : log[i].out = "panic"
    /\ \E c \in Calls({"Recover"}), d \in Calls({"Deferred"}) : c < d

\* C8: with an Error hook set, a dispatch that ends with a status >= 400
\* calls the hook exactly once, with that status and the error on the
\* context; a dispatch whose handler returned does not call it
C8_ErrorHookOnFailure ==
    (pc = "done" /\ opt.Error) =>
        /\ code.code >= 400 =>
               /\ Cardinality(Calls({"Error"})) = 1
               /\ \A e \in Calls({"Error"}) :
                      log[e].Status = code.code /\ log[e].Error = r.Error
        /\ (\E h \in Calls({"handler"}) : log[h].out = "ok") => Calls({"Error"}) = {}

\* C9: with no Error hook set, a dispatch that ends with 401, 404 or the
\* status of an aborting middleware writes that status, once
C9_BareStatusWritten ==
    (pc = "done" /\ ~opt.Error /\ code.code >= 400) => written = <<code.code>>

\* the routes registered on handle h with method m and pattern p, and the
\* "unreachable route" errors naming m and p
Registered(h, m, p) ==
    {i \in Ids : /\ routes[i].kind = "route" /\ routes[i].parent = h
                 /\ routes[i].method = m /\ routes[i].src = p}

Unreachable(m, p) ==
    {k \in 1..Len(Errors) : Errors[k] = ConfigError("unreachable route", m, p)}

\* C10: every registration of a (method, pattern) pair after the first
\* appends one "unreachable route" error, and a request is never dispatched
\* to the later registration
C10_DuplicateReported ==
    /\ \A i \in Ids :
           LET n == Cardinality(Registered(routes[i].parent, routes[i].method,
                                           routes[i].src))
               e == Cardinality(Unreachable(routes[i].method, routes[i].src))
           IN  routes[i].kind = "route" => (n - 1 <= e /\ e <= n)
    /\ \A h \in Calls({"handler"}) :
           \A i \in Registered(routes[log[h].id].parent, routes[log[h].id].method,
                               routes[log[h].id].src) : log[h].id <= i

\* ------------------------------------------------------------------------
\* Registration on its own: Get and Group (tree variant) and Get (strata
\* variant) called with well-formed and malformed pattern strings

\* pattern strings with a segment that is just "[" or ":x[", an empty
\* segment, a reserved character in a literal, an empty variable name
MalformedPatterns ==
    { <<"/", "[">>,
      <<"/", ":", "x", "[">>,
      <<"/", "a", "/", "/", "b">>,
      <<"/">>,
      <<"/", "a", ":", "b">>,
      <<"/", ":">> }

CompilePatterns ==
    MalformedPatterns \cup
    { <<>>, <<"/", "a">>, <<"/", ":", "x">>, <<"/", ":", "x", "/", ":", "x">>,
      <<"/", ":", "x", "/", ":", "y">> }

\* New(Options{}) / Router{}
RegInit ==
    /\ variant \in {"tree", "strata"}
    /\ opt = Hooks(FALSE, FALSE, FALSE, FALSE, FALSE)
    /\ routes = <<>>
    /\ stale = {}
    /\ Errors = <<>>
    /\ pc = "build"
    /\ req = [Method |-> "", Path |-> <<>>]
    /\ r = NewRequest
    /\ stack = <<>>
    /\ code = [code |-> 0, match |-> FALSE]
    /\ panicking = FALSE
    /\ log = <<>>
    /\ written = <<>>
    /\ propagated = FALSE
    /\ mIn = [variant |-> "none", pattern |-> <<>>, path |-> <<>>]
    /\ mOut = NoMatchResult
    /\ gen = NewIdGen(FALSE)

RegNext ==
    \/ \E p \in CompilePatterns : add(0, "GET", p, TRUE)
    \/ \E p \in CompilePatterns : Group(0, p, FALSE, FALSE)
    \/ \E p \in CompilePatterns : Add("GET", p, TRUE, 0)

SpecReg == RegInit /\ [][RegNext]_vars

\* C11: no registration call faults, whatever its pattern string, and every
\* entry registered with a malformed pattern is in the table with an error
\* naming its pattern in Errors
C11_ErrorsAccumulated ==
    /\ pc # "crashed"
    /\ \A i \in Ids : routes[i].src \in MalformedPatterns =>
           \E k \in 1..Len(Errors) : Errors[k].pattern = routes[i].src

\* ------------------------------------------------------------------------
\* The Before hook

\* the scan of the table took place: it ended with a match, with none, or
\* with a fault
Proceeded ==
    code.match \/ code.code = StatusNotFound \/ r.Error = "panic" \/ propagated

\* C12: in the tree router, when Before leaves a status in 300..399 the
\* dispatch makes no call but Before and Deferred, matches nothing and
\* reports nothing; when Before leaves another status the scan takes place
C12_BeforeRedirectHalts ==
    (variant = "tree" /\ pc = "done" /\ Calls({"Before"}) # {}) =>
        IF r.Status >= 300 /\ r.Status < 400
        THEN /\ \A i \in 1..Len(log) : log[i].call \in {"Before", "Deferred"}
             /\ code = [code |-> 0, match |-> FALSE]
             /\ written = <<>>
             /\ opt.Deferred => Calls({"Deferred"}) # {}
        ELSE Proceeded

\* Before redirected a request that a route of the table matches, and
\* Deferred ran
C12_Witness ==
    /\ variant = "tree" /\ pc = "done"
    /\ Calls({"Before"}) # {} /\ r.Status = 302
    /\ Calls({"Deferred"}) # {}
    /\ \E j \in Ids : FullMatch(j)

\* C13: a dispatch that ends with 404 or 401 has not called Before
C13_BeforeOnlyWhenAccessible ==
    (pc = "done" /\ code.code \in {StatusNotFound, StatusUnauthorized}) =>
        Calls({"Before"}) = {}

\* ------------------------------------------------------------------------
\* The root path: routes registered with the empty pattern and with a
\* one-segment pattern, requests for "/" and for a one-segment path

RootPatterns == { <<>>, <<"/", "a">> }

RootRequests == { <<"GET", <<"/">>>>, <<"GET", <<"/", "a">>>> }

RootNext ==
    \/ \E p \in RootPatterns : add(0, "GET", p, TRUE)
    \/ \E p \in RootPatterns : Add("GET", p, TRUE, 0)
    \/ \E q \in RootRequests : Serve(q[1], q[2])
    \/ \E b \in BOOLEAN : Redirect(b)
    \/ \E st \in BeforeStatuses : Before(st)
    \/ Iterate
    \/ Report
    \/ ServeStrata
    \/ ReportStrata
    \/ Return

SpecRoot == Init /\ [][RootNext]_vars

\* C14: a route registered first with the empty pattern has its handler
\* called for a request to "/" (unless a hook redirected the request), and
\* the handler of an empty-pattern route is called for no other path
C14_EmptyPatternMatchesRoot ==
    /\ (/\ pc = "done" /\ req.Path = <<"/">> /\ req.Method = "GET"
        /\ Len(routes) > 0 /\ routes[1].kind = "route" /\ routes[1].src = <<>>
        /\ ~(r.Status >= 300 /\ r.Status < 400))
       => \E h \in Calls({"handler"}) : log[h].id = 1
    /\ \A h \in Calls({"handler"}) :
           routes[log[h].id].src = <<>> => req.Path = <<"/">>

\* ------------------------------------------------------------------------
\* Bindings of pathsMatch

\* the named segments of a compiled pattern, by position
Named(pattern) == {i \in 1..Len(pattern) : pattern[i].varName # <<>>}

\* C15: pathsMatch on a pattern and a path of different lengths returns no
\* match and no bindings; when it returns a match the bindings are one per
\* named segment of the pattern, each the path segment at its position
C15_BindingsByPosition ==
    mOut.stage = "matched" =>
        LET P == mOut.pattern
            p == explodePath(mIn.path)
        IN  /\ Len(P) # Len(p) => (~mOut.ok /\ mOut.vars.kv = {})
            /\ mOut.ok =>
                   /\ mOut.vars.kv = {<<P[i].varName, p[i]>> : i \in Named(P)}
                   /\ Cardinality(mOut.vars.kv) = Cardinality(Named(P))

\* ------------------------------------------------------------------------
\* Variable names of stored patterns

\* pattern strings that repeat a variable name or leave it empty
BadNamePatterns == { <<"/", ":", "x", "/", ":", "x">>, <<"/", ":">> }

\* C19: in every pattern of the table the names of the variable segments
\* are non-empty and pairwise distinct, and an entry registered with a
\* pattern that repeats a name or leaves it empty has an error in Errors
C19_VarNamesUnique ==
    \A i \in Ids :
        LET P == routes[i].pattern IN
        /\ \A k \in 1..Len(P) : P[k].raw[1] = ":" => P[k].varName # <<>>
        /\ \A k, l \in Named(P) : P[k].varName = P[l].varName => k = l
        /\ routes[i].src \in BadNamePatterns =>
               \E e \in 1..Len(Errors) : Errors[e].pattern = routes[i].src

\* ------------------------------------------------------------------------
\* Skipped groups

\* entry id lies beneath group g
InGroup(id, g) == id # g /\ \E k \in 1..Len(Chain(id)) : Chain(id)[k] = g

\* C17: in the tree router, once the skip guard of a group has returned
\* true, the dispatch makes no other call for the group (its unauthorized
\* guard is not evaluated) and none for an entry beneath it, the scan never
\* stands in the group, and it goes on with the group's later siblings
C17_SkippedGroupBypassed ==
    variant = "tree" =>
        \A g \in Ids : GuardTrue("skip", g) =>
            /\ \A i \in 1..Len(log) :
                   /\ log[i].id = g => log[i].call = "skip"
                   /\ log[i].id \in Ids => ~InGroup(log[i].id, g)
            /\ \A k \in 1..Len(stack) :
                   stack[k].parent # g /\ ~InGroup(stack[k].parent, g)
            /\ (stack # <<>> /\ stack[Len(stack)].parent = routes[g].parent)
                   => Current > g

\* a group holding a route that matches the request was skipped, and the
\* handler of a later sibling of the group was called
C17_Witness ==
    /\ variant = "tree" /\ pc = "done"
    /\ \E g \in Ids, j \in Ids, h \in Calls({"handler"}) :
           /\ GuardTrue("skip", g)
           /\ InGroup(j, g) /\ FullMatch(j)
           /\ routes[log[h].id].parent = routes[g].parent
           /\ log[h].id > g

\* ------------------------------------------------------------------------
\* Use entries

\* C18: once a Use entry has set an error, the dispatch calls nothing but
\* the hooks that end it, its status is the one the entry set and the Error
\* hook, when set, is called with it; after a Use entry that set no error
\* the scan goes on (tree: the step that called it changes neither the
\* status, the context nor the response); and a scan that went through the whole root table has
\* called every Use entry of the root table
C18_UseAbortsScan ==
    /\ [](/\ \A u \in Calls({"use"}) : log[u].out = "err" =>
               /\ \A j \in (u + 1)..Len(log) :
                      log[j].call \in {"Error", "Recover", "Deferred"}
               /\ pc \in {"report", "done"}
               /\ code = [code |-> UseAbort.code, match |-> TRUE]
               /\ r.Error = UseAbort.err
               /\ (pc = "done" /\ opt.Error) =>
                      \E e \in Calls({"Error"}) :
                          log[e].Status = UseAbort.code /\ log[e].Error = UseAbort.err
          /\ (pc = "done" /\ code = [code |-> StatusNotFound, match |-> FALSE]) =>
                 \A i \in Ids : (routes[i].kind = "use" /\ routes[i].parent = 0) =>
                     \E u \in Calls({"use"}) : log[u].id = i)
    /\ [][(/\ variant = "tree"
            /\ Len(log') = Len(log) + 1
            /\ log'[Len(log')].call = "use"
            /\ log'[Len(log')].out = "ok") =>
              /\ pc' \in {"scan", "report"}
              /\ code' = code
              /\ r' = r
              /\ written' = written]_vars

\* a Use entry inside a group set an error although a route registered
\* after it matches the request, and the Error hook was called
C18_Witness ==
    /\ pc = "done"
    /\ \E u \in Calls({"use"}), j \in Ids :
           /\ log[u].out = "err"
           /\ routes[log[u].id].parent # 0
           /\ FullMatch(j) /\ RegisteredBefore(log[u].id, j)
    /\ Calls({"Error"}) # {}

\* ------------------------------------------------------------------------
\* Variables of a nested route

\* C20: in the group-tree router, the Vars of the context a handler was
\* called with are the bindings of the route's own pattern together with
\* those of the prefix pattern of every group it lies in, and no others
C20_VarsFromAncestors ==
    (variant = "tree" /\ pc = "done") =>
        \A h \in Calls({"handler"}) :
            r.Vars.kv = pathsMatch(FullPattern(log[h].id), explodePath(req.Path)).vars.kv

\* ------------------------------------------------------------------------
\* Request ids under concurrent dispatches: every goroutine of Procs enters
\* ServeHTTP of one group-tree router and calls rt.opt.IdGenerator.

\* what an IdGenerator supplied by the caller may return
CustomIds == {<<"a">>, <<"b">>}

\* New(o), o.IdGenerator nil or not
IdInit ==
    /\ variant = "tree"
    /\ opt = Hooks(FALSE, FALSE, FALSE, FALSE, FALSE)
    /\ routes = <<>>
    /\ stale = {}
    /\ Errors = <<>>
    /\ pc = "build"
    /\ req = [Method |-> "", Path |-> <<>>]
    /\ r = NewRequest
    /\ stack = <<>>
    /\ code = [code |-> 0, match |-> FALSE]
    /\ panicking = FALSE
    /\ log = <<>>
    /\ written = <<>>
    /\ propagated = FALSE
    /\ mIn = [variant |-> "none", pattern |-> <<>>, path |-> <<>>]
    /\ mOut = NoMatchResult
    /\ gen \in {NewIdGen(custom) : custom \in BOOLEAN}

idleVars == <<variant, opt, routes, stale, Errors, pc, req, r, stack, code,
              panicking, log, written, propagated, mIn, mOut>>

\* Id: rt.opt.IdGenerator(), with the caller's generator
IdGenerator(p, id) ==
    /\ gen.custom
    /\ gen.at[p] = "start"
    /\ gen' = [gen EXCEPT !.at[p] = "done", !.Id[p] = id]
    /\ UNCHANGED idleVars

\* rt.reqIdMu.Lock() without waiting for the mutex to be free
LockNoWait(p) ==
    /\ ~gen.custom
    /\ gen.at[p] = "start"
    /\ gen' = [gen EXCEPT !.at[p] = "inc", !.reqIdMu = p]
    /\ UNCHANGED idleVars

\* Id: rt.opt.IdGenerator(), with defaultIdGen: rt.reqIdMu.Lock()
Lock(p) ==
    /\ ~gen.custom
    /\ gen.at[p] = "start"
    /\ gen.reqIdMu = 0
    /\ gen' = [gen EXCEPT !.at[p] = "inc", !.reqIdMu = p]
    /\ UNCHANGED idleVars

\* rt.reqId++ (a uint64; at most MaxDispatches increments are made)
Inc(p) ==
    /\ gen.at[p] = "inc"
    /\ gen' = [gen EXCEPT !.at[p] = "read", !.reqId = gen.reqId + 1]
    /\ UNCHANGED idleVars

\* n := rt.reqId
ReadN(p) ==
    /\ gen.at[p] = "read"
    /\ gen' = [gen EXCEPT !.at[p] = "unlock", !.n[p] = gen.reqId]
    /\ UNCHANGED idleVars

\* rt.reqIdMu.Unlock()
Unlock(p) ==
    /\ gen.at[p] = "unlock"
    /\ gen' = [gen EXCEPT !.at[p] = "format", !.reqIdMu = 0]
    /\ UNCHANGED idleVars

\* return strconv.FormatUint(n, 36)
ReturnId(p) ==
    /\ gen.at[p] = "format"
    /\ gen' = [gen EXCEPT !.at[p] = "done", !.Id[p] = FormatUint(gen.n[p], 36)]
    /\ UNCHANGED idleVars

IdNext ==
    \/ \E p \in Procs, id \in CustomIds : IdGenerator(p, id)
    \/ \E p \in Procs : Lock(p)
    \/ \E p \in Procs : Inc(p)
    \/ \E p \in Procs : ReadN(p)
    \/ \E p \in Procs : Unlock(p)
    \/ \E p \in Procs : ReturnId(p)

SpecId == IdInit /\ [][IdNext]_vars

\* the goroutines that have read the counter, and those that have their id
HaveN == {p \in Procs : gen.at[p] \in {"unlock", "format", "done"}}
HaveId == {p \in Procs : gen.at[p] = "done"}

GroupConsumes(g) ==
    LET reqPath == explodePath(req.Path) IN
    /\ routes[g].kind = "group"
    /\ ~Skipped(g)
    /\ \A k \in 1..Len(Chain(g)) : ~GuardTrue("unauthorized", Chain(g)[k])
    /\ Len(FullPattern(g)) = Len(reqPath)
    /\ pathsMatch(FullPattern(g), reqPath).ok

\* C21: in the group-tree router, a dispatch that no hook halted, whose path
\* no route matches and no Use entry aborted, but which an authorized group's
\* prefix consumes exactly, ends with status 404, with no handler called and
\* no runtime fault
C21_GroupNotTerminal ==
    (/\ variant = "tree" /\ pc = "done"
     /\ Calls({"Before", "Redirect"}) = {}
     /\ \A u \in Calls({"use"}) : log[u].out = "ok"
     /\ \A j \in Ids : ~FullMatch(j)
     /\ \E g \in Ids : GroupConsumes(g)) =>
        /\ code = [code |-> StatusNotFound, match |-> FALSE]
        /\ Calls({"handler", "Recover"}) = {}
        /\ r.Error = "nil"
        /\ ~propagated

====
